---- MODULE Spec2Model ----
(***************************************************************************)
(* Model of the weather dashboard (src/app.py).                            *)
(*                                                                         *)
(* The script is re-executed top to bottom on every user interaction.      *)
(* Each run rebuilds DB_CONFIG from the environment, lists and browses the *)
(* tables (tab 1), draws the charts (tab 2) and applies the filters and    *)
(* the summary metrics (tab 3).  The three query functions are memoized by *)
(* st.cache_data for the lifetime of the process.                          *)
(*                                                                         *)
(* Temperatures are whole degrees; a nullable value is <<>> (null) or      *)
(* <<v>>.  A mean is kept exact as <<sum, count>>, <<>> when undefined.    *)
(***************************************************************************)
EXTENDS Integers, Sequences, FiniteSets, TLC

VARIABLES env, DB_CONFIG, cache, roundTrips, openConns, pc, runs, crashSite, tables, i, displayed, errors,
          df, temp_by_city, temp_over_time,
          selected_condition, selected_country, selected_city,
          selected_ranges, filtered_df, metrics,
          temps, buckets

vars == <<env, DB_CONFIG, cache, roundTrips, openConns, pc, runs, crashSite, tables, i, displayed, errors,
          df, temp_by_city, temp_over_time,
          selected_condition, selected_country, selected_city,
          selected_ranges, filtered_df, metrics,
          temps, buckets>>

(***************************************************************************)
(* Bounds                                                                  *)
(***************************************************************************)
MaxRuns == 2
MaxVersion == 2
MaxRows == 2
MinTemp == 7
MaxTemp == 32

(***************************************************************************)
(* Configuration (lines 15-21)                                             *)
(***************************************************************************)
DefaultPort == 5432

RequiredVars == {"DB_HOST", "DB_USER", "DB_PASSWORD", "DB_NAME"}

FullEnv ==
    [DB_HOST |-> <<"localhost">>, DB_PORT |-> <<"6543">>,
     DB_USER |-> <<"weather">>, DB_PASSWORD |-> <<"secret">>,
     DB_NAME |-> <<"warehouse">>]

\* The environments of the process: every variable set, or one of them
\* unset (<<>>): a required one (the host, the password) or the port.
Environments ==
    {FullEnv} \cup {[FullEnv EXCEPT ![name] = <<>>] :
                       name \in {"DB_HOST", "DB_PASSWORD", "DB_PORT"}}

\* int() on the text of a port number.
int(s) == CASE s = "6543" -> 6543
            [] s = "5432" -> 5432

\* os.getenv(name): None (<<>>) when the variable is unset.
getenv(e, name) == e[name]

MakeDbConfig(e) ==
    [host |-> getenv(e, "DB_HOST"),
     port |-> IF getenv(e, "DB_PORT") = <<>> THEN DefaultPort
              ELSE int(getenv(e, "DB_PORT")[1]),
     user |-> getenv(e, "DB_USER"),
     password |-> getenv(e, "DB_PASSWORD"),
     dbname |-> getenv(e, "DB_NAME")]

MissingRequired(e) == \E name \in RequiredVars : e[name] = <<>>

(***************************************************************************)
(* The warehouse as seen through the queries                               *)
(***************************************************************************)
\* The catalog in (schema, table) order, as the ORDER BY of line 31 yields.
Catalog == << <<"dim", "city">>, <<"dim", "date">>, <<"fact", "temperature">> >>

TableIds == {Catalog[n] : n \in 1..Len(Catalog)}

\* Every list the catalog query can return: a sub-list of Catalog, in order.
TableLists ==
    LET Pick(S) == [n \in 1..Cardinality(S) |->
                      Catalog[CHOOSE m \in S :
                                Cardinality({x \in S : x < m}) = n - 1]]
    IN {Pick(S) : S \in SUBSET (1..Len(Catalog))}

\* What SELECT * FROM "schema"."table" can return: the rows of that table,
\* in one of the versions the table goes through.
TableData(schema, table) ==
    {[of |-> <<schema, table>>, version |-> v] : v \in 1..MaxVersion}

Cities == {"Recife", "Lima"}
CountryOf(c) == IF c = "Lima" THEN "Peru" ELSE "Brazil"

\* The days observed, each with the conditions seen on it.
DayConditions == {<<1, "Clear">>, <<2, "Clear">>, <<2, "Rain">>}

Observation(t, d, c, cond) ==
    [temp |-> t, full_date |-> d, city_name |-> c,
     country_name |-> CountryOf(c), condition_name |-> cond]

\* The fact loads the dashboard run is exercised with.
FactLoads ==
    { <<>>, << Observation(<<10>>, 1, "Recife", "Clear") >> }

\* Every fact load of at most MaxRows rows over the observations above.
Temps == {<<>>, <<10>>, <<25>>}

Observations ==
    {Observation(t, dc[1], c, dc[2]) :
        t \in Temps, dc \in DayConditions, c \in Cities}

Datasets == UNION {[1..n -> Observations] : n \in 0..MaxRows}

(***************************************************************************)
(* Categorizer (lines 65-75)                                               *)
(***************************************************************************)
Buckets == <<"<10C", "10-20C", "20-30C", ">=30C">>

\* The first comparison written as temp <= 10.
categorize_temperature_closed(temp) ==
    IF temp = <<>> THEN "Unknown"
    ELSE IF temp[1] <= 10 THEN Buckets[1]
    ELSE IF 10 <= temp[1] /\ temp[1] < 20 THEN Buckets[2]
    ELSE IF 20 <= temp[1] /\ temp[1] < 30 THEN Buckets[3]
    ELSE Buckets[4]

categorize_temperature(temp) ==
    IF temp = <<>> THEN "Unknown"
    ELSE IF temp[1] < 10 THEN Buckets[1]
    ELSE IF 10 <= temp[1] /\ temp[1] < 20 THEN Buckets[2]
    ELSE IF 20 <= temp[1] /\ temp[1] < 30 THEN Buckets[3]
    ELSE Buckets[4]

\* df["temp_range"] = df["temp"].apply(categorize_temperature)
WithTempRange(d) ==
    [n \in 1..Len(d) |->
        [temp |-> d[n].temp, full_date |-> d[n].full_date,
         city_name |-> d[n].city_name, country_name |-> d[n].country_name,
         condition_name |-> d[n].condition_name,
         temp_range |-> categorize_temperature(d[n].temp)]]

(***************************************************************************)
(* Aggregation (lines 102-107, 114-118)                                    *)
(***************************************************************************)
\* Series.unique(): the distinct values of a column.
unique(d, col) == {d[n][col] : n \in 1..Len(d)}

RECURSIVE SumTemp(_)
SumTemp(s) == IF s = <<>> THEN 0 ELSE s[1].temp[1] + SumTemp(Tail(s))

RECURSIVE SumTempOrZero(_)
SumTempOrZero(s) ==
    IF s = <<>> THEN 0
    ELSE (IF s[1].temp = <<>> THEN 0 ELSE s[1].temp[1])
            + SumTempOrZero(Tail(s))

\* A mean that counts a null temp as zero instead of skipping it.
mean_nulls_as_zero(d) ==
    IF d = <<>> THEN <<>> ELSE <<SumTempOrZero(d), Len(d)>>

\* mean() of the temp column: nulls are skipped; undefined over no values.
mean(d) ==
    LET known == SelectSeq(d, LAMBDA r : r.temp # <<>>)
    IN IF known = <<>> THEN <<>> ELSE <<SumTemp(known), Len(known)>>

\* groupby(col)["temp"].mean().reset_index(): one row per key of the column.
GroupMean(d, col) ==
    {[key |-> k, temp |-> mean(SelectSeq(d, LAMBDA r : r[col] = k))] :
        k \in unique(d, col)}

\* m1 > m2 on exact means.
MeanGreater(m1, m2) == m1[1] * m2[2] > m2[1] * m1[2]

\* The rows that may come first in descending order of temp: a largest
\* defined mean, or any row once only undefined means are left.
Largest(S) ==
    LET defined == {r \in S : r.temp # <<>>}
    IN IF defined = {} THEN S
       ELSE {r \in defined :
                \A o \in defined : ~MeanGreater(o.temp, r.temp)}

\* sort_values(by="temp", ascending=False): undefined means go last; the
\* sort is not stable, so equal means come out in any order.
RECURSIVE SortByTempDescending(_)
SortByTempDescending(S) ==
    IF S = {} THEN {<<>>}
    ELSE UNION {{<<r>> \o rest : rest \in SortByTempDescending(S \ {r})} :
                   r \in Largest(S)}

\* groupby sorts the group keys ascending.
RECURSIVE SortByKey(_)
SortByKey(S) ==
    IF S = {} THEN <<>>
    ELSE LET first == CHOOSE r \in S : \A o \in S : r.key <= o.key
         IN <<first>> \o SortByKey(S \ {first})

TempByCity(d) == SortByTempDescending(GroupMean(d, "city_name"))

TempOverTime(d) == SortByKey(GroupMean(d, "full_date"))

(***************************************************************************)
(* Filter and summary metrics (lines 132-148)                              *)
(***************************************************************************)
\* Series.isin(values): one boolean per row.
isin(d, col, values) == [n \in 1..Len(d) |-> d[n][col] \in values]

MaskAnd(m1, m2) == [n \in 1..Len(m1) |-> m1[n] /\ m2[n]]

\* df[mask]: the rows whose mask is true, in their order.
RECURSIVE BoolIndex(_, _)
BoolIndex(d, mask) ==
    IF d = <<>> THEN <<>>
    ELSE IF mask[1] THEN <<d[1]>> \o BoolIndex(Tail(d), Tail(mask))
    ELSE BoolIndex(Tail(d), Tail(mask))

MaskOr(m1, m2) == [n \in 1..Len(m1) |-> m1[n] \/ m2[n]]

\* The four masks joined with | instead of &.
FilterMask_any(d, conds, countries, cities, ranges) ==
    MaskOr(MaskOr(MaskOr(isin(d, "condition_name", conds),
                         isin(d, "country_name", countries)),
                  isin(d, "city_name", cities)),
           isin(d, "temp_range", ranges))

FilterMask(d, conds, countries, cities, ranges) ==
    MaskAnd(MaskAnd(MaskAnd(isin(d, "condition_name", conds),
                            isin(d, "country_name", countries)),
                    isin(d, "city_name", cities)),
            isin(d, "temp_range", ranges))

FilteredDf(d, conds, countries, cities, ranges) ==
    BoolIndex(d, FilterMask(d, conds, countries, cities, ranges))

\* f"{x:.2f}": the value in hundredths, "nan" for an undefined mean.
Format2f(m) ==
    IF m = <<>> THEN [text |-> "nan", hundredths |-> 0]
    ELSE [text |-> "number",
          hundredths |-> (200 * m[1] + m[2]) \div (2 * m[2])]

Placeholder == [text |-> "-", hundredths |-> 0]

\* The metric without its guard on the empty frame.
AverageTempMetric_unguarded(f) == Format2f(mean(f))

AverageTempMetric(f) == IF f # <<>> THEN Format2f(mean(f)) ELSE Placeholder

SummaryMetrics(f) ==
    [cities |-> Cardinality(unique(f, "city_name")),
     records |-> Len(f),
     average |-> AverageTempMetric(f)]

(***************************************************************************)
(* Query functions (lines 23-63)                                           *)
(***************************************************************************)
\* The calls the script can make: the function followed by its arguments.
Calls ==
    {<<"get_table_names">>, <<"load_weather_data">>}
        \cup {<<"get_table_data", t[1], t[2]>> : t \in TableIds}

\* One execution of a query function's body: psycopg2.connect, the
\* statement, conn.close(), return.  connect raises when the warehouse is
\* unreachable, the statement raises on a query error, and conn.close() is
\* reached only when neither did.
Query(results) ==
    {[hit |-> FALSE, raised |-> TRUE, error |-> "OperationalError",
      value |-> <<>>, opened |-> 0, closed |-> 0, trips |-> 0],
     [hit |-> FALSE, raised |-> TRUE, error |-> "DatabaseError",
      value |-> <<>>, opened |-> 1, closed |-> 0, trips |-> 1]}
    \cup {[hit |-> FALSE, raised |-> FALSE, error |-> "",
           value |-> <<r>>, opened |-> 1, closed |-> 1, trips |-> 1] :
              r \in results}

get_table_names == Query(TableLists)

get_table_data(schema, table) == Query(TableData(schema, table))

load_weather_data == Query(FactLoads)

\* A key that leaves the arguments out.
CacheKey_ignores_args(func, args) == <<func>>

\* st.cache_data keys an entry by the function and its argument values.
CacheKey(func, args) == <<func>> \o args

\* A wrapper that runs the body on every call.
cache_data_never_hits(func, args, body) == body

\* @st.cache_data: a call whose key has an entry returns the entry and does
\* not run the body; otherwise the body runs.
cache_data(func, args, body) ==
    IF CacheKey(func, args) \in DOMAIN cache
    THEN {[hit |-> TRUE, raised |-> FALSE, error |-> "",
           value |-> <<cache[CacheKey(func, args)]>>,
           opened |-> 0, closed |-> 0, trips |-> 0]}
    ELSE body

\* The entry st.cache_data creates when the body returned: nothing is
\* stored for a call that raised.
Store(func, args, o) ==
    IF o.hit \/ o.raised THEN cache
    ELSE [k \in DOMAIN cache \cup {CacheKey(func, args)} |->
            IF k = CacheKey(func, args) THEN o.value[1] ELSE cache[k]]

\* What a call leaves behind in the cache and at the connector.
Called(func, args, o) ==
    /\ cache' = Store(func, args, o)
    /\ roundTrips' = [roundTrips EXCEPT ![<<func>> \o args] = @ + o.trips]
    /\ openConns' = openConns + o.opened - o.closed

(***************************************************************************)
(* The script (lines 77-158)                                               *)
(***************************************************************************)
NoCharts ==
    /\ df' = <<>>
    /\ temp_by_city' = <<>>
    /\ temp_over_time' = <<>>

NoFilters ==
    /\ selected_condition' = {}
    /\ selected_country' = {}
    /\ selected_city' = {}
    /\ selected_ranges' = {}
    /\ filtered_df' = <<>>
    /\ metrics' = <<>>

\* An exception that nothing catches ends the run.
Crash(site) ==
    /\ pc' = "crashed"
    /\ crashSite' = site

\* Lines 98-118: the frame with its buckets and the two grouped means.
ChartsTab(loaded) ==
    /\ df' = WithTempRange(loaded)
    /\ temp_by_city' \in TempByCity(WithTempRange(loaded))
    /\ temp_over_time' = TempOverTime(WithTempRange(loaded))

\* Lines 127-148: the selections of the four multiselects (any subset of
\* the options, all of them by default), the filter and the metrics.
FiltersTab(loaded) ==
    LET d == WithTempRange(loaded) IN
    /\ df' = d
    /\ selected_condition' \in SUBSET unique(d, "condition_name")
    /\ selected_country' \in SUBSET unique(d, "country_name")
    /\ selected_city' \in SUBSET unique(d, "city_name")
    /\ selected_ranges' \in SUBSET unique(d, "temp_range")
    /\ filtered_df' = FilteredDf(d, selected_condition', selected_country',
                                 selected_city', selected_ranges')
    /\ metrics' = SummaryMetrics(filtered_df')

\* Line 86: tables = get_table_names().
ListTables ==
    /\ pc = "tab1"
    /\ \E o \in cache_data("get_table_names", <<>>, get_table_names) :
          /\ Called("get_table_names", <<>>, o)
          /\ IF o.raised
             THEN Crash("tab1") /\ UNCHANGED <<tables, i>>
             ELSE /\ tables' = o.value[1]
                  /\ i' = 1
                  /\ pc' = IF o.value[1] = <<>> THEN "tab2" ELSE "loop"
                  /\ UNCHANGED crashSite
    /\ UNCHANGED <<env, DB_CONFIG, runs, displayed, errors, df,
                   temp_by_city, temp_over_time, selected_condition,
                   selected_country, selected_city, selected_ranges,
                   filtered_df, metrics, temps, buckets>>

\* The loop without its try/except: a failing table ends the run.
BrowseTable_abort ==
    /\ pc = "loop"
    /\ i <= Len(tables)
    /\ \E o \in cache_data("get_table_data", tables[i],
                            get_table_data(tables[i][1], tables[i][2])) :
          /\ Called("get_table_data", tables[i], o)
          /\ IF o.raised
             THEN /\ Crash("loop")
                  /\ UNCHANGED <<displayed, errors, i>>
             ELSE /\ displayed' = Append(displayed, o.value[1])
                  /\ i' = i + 1
                  /\ pc' = IF i = Len(tables) THEN "tab2" ELSE "loop"
                  /\ UNCHANGED <<errors, crashSite>>
    /\ UNCHANGED <<env, DB_CONFIG, runs, tables, df,
                   temp_by_city, temp_over_time, selected_condition,
                   selected_country, selected_city, selected_ranges,
                   filtered_df, metrics, temps, buckets>>

\* Lines 87-93: one iteration of the loop over the tables.
BrowseTable ==
    /\ pc = "loop"
    /\ i <= Len(tables)
    /\ \E o \in cache_data("get_table_data", tables[i],
                            get_table_data(tables[i][1], tables[i][2])) :
          /\ Called("get_table_data", tables[i], o)
          /\ IF o.raised
             THEN /\ errors' = Append(errors, tables[i])
                  /\ UNCHANGED displayed
             ELSE /\ displayed' = Append(displayed, o.value[1])
                  /\ UNCHANGED errors
    /\ i' = i + 1
    /\ pc' = IF i = Len(tables) THEN "tab2" ELSE "loop"
    /\ UNCHANGED <<env, DB_CONFIG, runs, crashSite, tables, df,
                   temp_by_city, temp_over_time, selected_condition,
                   selected_country, selected_city, selected_ranges,
                   filtered_df, metrics, temps, buckets>>

\* Lines 96-122: the charts tab.
Charts ==
    /\ pc = "tab2"
    /\ \E o \in cache_data("load_weather_data", <<>>, load_weather_data) :
          /\ Called("load_weather_data", <<>>, o)
          /\ IF o.raised
             THEN Crash("tab2") /\ NoCharts
             ELSE /\ ChartsTab(o.value[1])
                  /\ pc' = "tab3"
                  /\ UNCHANGED crashSite
    /\ UNCHANGED <<env, DB_CONFIG, runs, tables, i, displayed, errors,
                   selected_condition, selected_country, selected_city,
                   selected_ranges, filtered_df, metrics, temps, buckets>>

\* Lines 125-158: the filters tab.
Filters ==
    /\ pc = "tab3"
    /\ \E o \in cache_data("load_weather_data", <<>>, load_weather_data) :
          /\ Called("load_weather_data", <<>>, o)
          /\ IF o.raised
             THEN Crash("tab3") /\ NoFilters /\ UNCHANGED df
             ELSE /\ FiltersTab(o.value[1])
                  /\ pc' = "idle"
                  /\ UNCHANGED crashSite
    /\ UNCHANGED <<env, DB_CONFIG, runs, tables, i, displayed, errors,
                   temp_by_city, temp_over_time, temps, buckets>>

\* A user interaction runs the script again from line 1; the process, and
\* with it the cache, lives on.
Rerun ==
    /\ pc \in {"idle", "crashed"}
    /\ runs < MaxRuns
    /\ runs' = runs + 1
    /\ DB_CONFIG' = MakeDbConfig(env)
    /\ pc' = "tab1"
    /\ crashSite' = ""
    /\ tables' = <<>>
    /\ i' = 0
    /\ displayed' = <<>>
    /\ errors' = <<>>
    /\ NoCharts
    /\ NoFilters
    /\ UNCHANGED <<env, cache, roundTrips, openConns, temps, buckets>>

\* The process has started and the first run has executed lines 1-21.
Init ==
    /\ env \in Environments
    /\ DB_CONFIG = MakeDbConfig(env)
    /\ cache = <<>>
    /\ roundTrips = [c \in Calls |-> 0]
    /\ openConns = 0
    /\ pc = "tab1"
    /\ runs = 1
    /\ crashSite = ""
    /\ tables = <<>>
    /\ i = 0
    /\ displayed = <<>>
    /\ errors = <<>>
    /\ df = <<>>
    /\ temp_by_city = <<>>
    /\ temp_over_time = <<>>
    /\ selected_condition = {}
    /\ selected_country = {}
    /\ selected_city = {}
    /\ selected_ranges = {}
    /\ filtered_df = <<>>
    /\ metrics = <<>>
    /\ temps = <<>>
    /\ buckets = <<>>

Next == ListTables \/ BrowseTable \/ Charts \/ Filters \/ Rerun

Spec == Init /\ [][Next]_vars

(***************************************************************************)
(* The categorizer, the grouped means, the filter and the metrics applied  *)
(* to bounded inputs                                                       *)
(***************************************************************************)
NullableTemps == {<<>>} \cup {<<t>> : t \in MinTemp..MaxTemp}

InitPure ==
    /\ env = FullEnv
    /\ DB_CONFIG = MakeDbConfig(env)
    /\ cache = <<>>
    /\ roundTrips = [c \in Calls |-> 0]
    /\ openConns = 0
    /\ runs = 1
    /\ crashSite = ""
    /\ tables = <<>>
    /\ i = 0
    /\ displayed = <<>>
    /\ errors = <<>>
    /\ temp_by_city = <<>>
    /\ temp_over_time = <<>>
    /\ selected_condition = {}
    /\ selected_country = {}
    /\ selected_city = {}
    /\ selected_ranges = {}
    /\ filtered_df = <<>>
    /\ metrics = <<>>
    /\ buckets = <<>>
    /\ \/ /\ pc = "temps"
          /\ temps \in NullableTemps \X NullableTemps
          /\ df = <<>>
       \/ /\ pc = "loaded"
          /\ temps = <<>>
          /\ df \in Datasets

\* categorize_temperature applied to a pair of temperatures.
Categorize ==
    /\ pc = "temps"
    /\ buckets' = <<categorize_temperature(temps[1]),
                    categorize_temperature(temps[2])>>
    /\ pc' = "categorized"
    /\ UNCHANGED <<env, DB_CONFIG, cache, roundTrips, openConns, runs,
                   crashSite, tables, i, displayed, errors, df,
                   temp_by_city, temp_over_time, selected_condition,
                   selected_country, selected_city, selected_ranges,
                   filtered_df, metrics, temps>>

\* Lines 99-118 applied to the loaded rows.
ApplyCharts ==
    /\ pc = "loaded"
    /\ ChartsTab(df)
    /\ pc' = "charted"
    /\ UNCHANGED <<env, DB_CONFIG, cache, roundTrips, openConns, runs,
                   crashSite, tables, i, displayed, errors,
                   selected_condition, selected_country, selected_city,
                   selected_ranges, filtered_df, metrics, temps, buckets>>

\* Lines 128-148 applied to the loaded rows.
ApplyFilters ==
    /\ pc = "charted"
    /\ FiltersTab(df)
    /\ pc' = "filtered"
    /\ UNCHANGED <<env, DB_CONFIG, cache, roundTrips, openConns, runs,
                   crashSite, tables, i, displayed, errors, temp_by_city,
                   temp_over_time, temps, buckets>>

NextPure == Categorize \/ ApplyCharts \/ ApplyFilters

SpecPure == InitPure /\ [][NextPure]_vars

(***************************************************************************)
(* Properties                                                              *)
(***************************************************************************)
KeyOf(c) == CacheKey(Head(c), Tail(c))

Cached(c) == KeyOf(c) \in DOMAIN cache

NamesCall == <<"get_table_names">>

WeatherCall == <<"load_weather_data">>

TableCalls == {c \in Calls : Head(c) = "get_table_data"}

Range(q) == {q[n] : n \in 1..Len(q)}

\* C1 as stated: for every cached query function and argument tuple, at
\* most one warehouse round trip is ever issued.
C1_AtMostOneRoundTrip == \A c \in Calls : roundTrips[c] <= 1

\* C1 amended: once a call with a key has returned, its entry stays as it
\* is, no later call with that key issues a round trip, and every later
\* call returns the entry (the result of that first returning call)
\* whatever the warehouse holds by then.
C1_EntryReused ==
    [][/\ \A c \in Calls :
            Cached(c) => /\ KeyOf(c) \in DOMAIN cache'
                         /\ cache'[KeyOf(c)] = cache[KeyOf(c)]
                         /\ roundTrips'[c] = roundTrips[c]
       /\ (pc = "tab1" /\ Cached(NamesCall))
            => /\ pc' # "crashed"
               /\ tables' = cache[KeyOf(NamesCall)]
       /\ (pc = "loop" /\ Cached(<<"get_table_data">> \o tables[i]))
            => /\ errors' = errors
               /\ displayed' =
                    Append(displayed,
                           cache[KeyOf(<<"get_table_data">> \o tables[i])])
       /\ (pc \in {"tab2", "tab3"} /\ Cached(WeatherCall))
            => /\ pc' # "crashed"
               /\ df' = WithTempRange(cache[KeyOf(WeatherCall)])]_vars

\* A second run that went through all three tabs on one round trip per
\* call it made.
C1_Witness ==
    /\ runs = 2
    /\ pc = "idle"
    /\ displayed # <<>>
    /\ roundTrips[NamesCall] = 1
    /\ roundTrips[WeatherCall] = 1
    /\ \A c \in TableCalls : roundTrips[c] <= 1

\* C2: no query function has returned or raised with its connection still
\* open.
C2_ConnectionReleased == openConns = 0

\* The tables of the list the loop is through with.
Browsed == IF pc = "loop" THEN i - 1 ELSE Len(tables)

\* C3: every table of the list the loop has reached is either displayed or
\* has its own error reported, whichever of the others failed, and the
\* loop goes through the whole list.
C3_PartialFailure ==
    /\ Len(displayed) + Len(errors) = Browsed
    /\ \A n \in 1..Browsed :
          IF tables[n] \in Range(errors)
          THEN \A m \in 1..Len(displayed) : displayed[m].of # tables[n]
          ELSE \E m \in 1..Len(displayed) : displayed[m].of = tables[n]

\* A failing table between two tables that are displayed.
C3_Witness ==
    /\ pc = "tab2"
    /\ Len(tables) = 3
    /\ errors = <<tables[2]>>
    /\ Len(displayed) = 2
    /\ displayed[1].of = tables[1]
    /\ displayed[2].of = tables[3]

\* C4: a failing weather fact query does not end the run.
C4_WeatherFailureDegrades ==
    ~(pc = "crashed" /\ crashSite \in {"tab2", "tab3"})

\* C5: with a required connection parameter missing no connection is
\* opened and no query is issued; DB_PORT alone defaults to 5432.
C5_FailFast ==
    /\ MissingRequired(env)
          => /\ \A c \in Calls : roundTrips[c] = 0
             /\ openConns = 0
             /\ DOMAIN cache = {}
    /\ env.DB_PORT = <<>> => DB_CONFIG.port = 5432

\* C6: get_table_data keeps one entry per argument tuple: an entry holds
\* the rows of its own table and was filled by a round trip for its own
\* tuple, a displayed frame is the one of the table it is displayed for,
\* and a round trip for one tuple leaves the entry and the round trips of
\* every other tuple as they are.
C6_SeparateEntries ==
    /\ [](/\ \A c \in TableCalls :
               Cached(c) => /\ cache[KeyOf(c)].of = Tail(c)
                            /\ roundTrips[c] >= 1
          /\ \A m \in 1..Len(displayed) :
               /\ Cached(<<"get_table_data">> \o displayed[m].of)
               /\ displayed[m] =
                    cache[KeyOf(<<"get_table_data">> \o displayed[m].of)]
               /\ displayed[m].of \in Range(tables))
    /\ [][\A c1, c2 \in TableCalls :
            (c1 # c2 /\ roundTrips'[c1] # roundTrips[c1])
               => /\ roundTrips'[c2] = roundTrips[c2]
                  /\ Cached(c2) <=> KeyOf(c2) \in DOMAIN cache'
                  /\ Cached(c2) => cache'[KeyOf(c2)] = cache[KeyOf(c2)]]_vars

\* Two tuples, each with its own round trip and its own entry, displayed
\* again from the cache in a later run.
C6_Witness ==
    /\ runs = 2
    /\ pc = "tab2"
    /\ Len(displayed) = 2
    /\ displayed[1].of # displayed[2].of
    /\ displayed[1].version # displayed[2].version
    /\ \A m \in 1..2 : roundTrips[<<"get_table_data">> \o displayed[m].of] = 1

\* The row of the frame a row of the filtered frame comes from.
Keeps(r) ==
    /\ r.condition_name \in selected_condition
    /\ r.country_name \in selected_country
    /\ r.city_name \in selected_city
    /\ r.temp_range \in selected_ranges

KeptRows == {n \in 1..Len(df) : Keeps(df[n])}

\* The m-th smallest element of a set of numbers.
Nth(S, m) == CHOOSE n \in S : Cardinality({x \in S : x < n}) = m - 1

\* C7: the filtered frame is the rows whose four attributes are all
\* selected, in their order; it is the whole frame when every selection
\* is the full set of values, and empty when a selection is empty.
C7_Filter ==
    pc = "filtered" =>
        /\ Len(filtered_df) = Cardinality(KeptRows)
        /\ \A m \in 1..Len(filtered_df) : filtered_df[m] = df[Nth(KeptRows, m)]
        /\ (/\ selected_condition = unique(df, "condition_name")
            /\ selected_country = unique(df, "country_name")
            /\ selected_city = unique(df, "city_name")
            /\ selected_ranges = unique(df, "temp_range"))
              => filtered_df = df
        /\ (\/ selected_condition = {}
            \/ selected_country = {}
            \/ selected_city = {}
            \/ selected_ranges = {})
              => filtered_df = <<>>

\* A selection that keeps the second of two rows only.
C7_Witness ==
    /\ pc = "filtered"
    /\ Len(df) = 2
    /\ selected_condition # {}
    /\ selected_country # {}
    /\ selected_city # {}
    /\ selected_ranges # {}
    /\ filtered_df = <<df[2]>>
    /\ df[1] # df[2]

BucketOrder(b) == CHOOSE n \in 1..Len(Buckets) : Buckets[n] = b

Categorized(t, b) ==
    /\ b \in Range(Buckets) \cup {"Unknown"}
    /\ b = "Unknown" <=> t = <<>>
    /\ b = "<10C" <=> (t # <<>> /\ t[1] < 10)
    /\ b = "10-20C" <=> (t # <<>> /\ 10 <= t[1] /\ t[1] < 20)
    /\ b = "20-30C" <=> (t # <<>> /\ 20 <= t[1] /\ t[1] < 30)
    /\ b = ">=30C" <=> (t # <<>> /\ t[1] >= 30)

\* C8: every temperature gets exactly the bucket of its range, null gets
\* "Unknown", and a lower temperature never gets a later bucket.
C8_Categorize ==
    pc = "categorized" =>
        /\ Categorized(temps[1], buckets[1])
        /\ Categorized(temps[2], buckets[2])
        /\ (temps[1] # <<>> /\ temps[2] # <<>> /\ temps[1][1] < temps[2][1])
              => BucketOrder(buckets[1]) <= BucketOrder(buckets[2])

\* The two sides of the first boundary.
C8_Witness ==
    /\ pc = "categorized"
    /\ temps = << <<9>>, <<10>> >>
    /\ buckets = <<"<10C", "10-20C">>

\* C9: over an empty filtered frame the metrics are 0 cities, 0 records
\* and the placeholder for the average.
C9_EmptyMetrics ==
    (pc = "filtered" /\ filtered_df = <<>>) =>
        /\ metrics.cities = 0
        /\ metrics.records = 0
        /\ metrics.average = Placeholder
        /\ metrics.average.text # "nan"

\* Rows were loaded and the selections keep none of them.
C9_Witness ==
    /\ pc = "filtered"
    /\ df # <<>>
    /\ filtered_df = <<>>
    /\ metrics.average.text = "-"

RECURSIVE SumOfTemps(_)
SumOfTemps(S) ==
    IF S = {} THEN 0
    ELSE LET n == CHOOSE x \in S : TRUE
         IN df[n].temp[1] + SumOfTemps(S \ {n})

\* The entry of a grouped mean is the mean of the known temps of its key.
MeanOfGroup(e, col) ==
    LET known == {n \in 1..Len(df) : df[n][col] = e.key /\ df[n].temp # <<>>}
    IN IF known = {} THEN e.temp = <<>>
       ELSE /\ e.temp # <<>>
            /\ e.temp[1] * Cardinality(known) = SumOfTemps(known) * e.temp[2]

GroupedBy(g, col) ==
    /\ Len(g) = Cardinality(unique(df, col))
    /\ {g[n].key : n \in 1..Len(g)} = unique(df, col)
    /\ \A n \in 1..Len(g) : MeanOfGroup(g[n], col)

\* C10: each grouped mean has one entry per key of the loaded rows, the
\* mean of the key's known temps (undefined when it has none); the cities
\* come by mean descending and the dates ascending.
C10_GroupedMeans ==
    pc \in {"charted", "filtered"} =>
        /\ GroupedBy(temp_by_city, "city_name")
        /\ GroupedBy(temp_over_time, "full_date")
        /\ \A a, b \in 1..Len(temp_by_city) :
              (a < b /\ temp_by_city[a].temp # <<>>
                     /\ temp_by_city[b].temp # <<>>)
                 => ~MeanGreater(temp_by_city[b].temp, temp_by_city[a].temp)
        /\ \A a, b \in 1..Len(temp_over_time) :
              a < b => temp_over_time[a].key < temp_over_time[b].key

\* A city whose mean skips a null temp.
C10_Witness ==
    /\ pc = "charted"
    /\ Len(df) = 2
    /\ df[1].city_name = df[2].city_name
    /\ df[1].temp = <<>>
    /\ df[2].temp = <<25>>
    /\ df[1].full_date > df[2].full_date
    /\ temp_by_city[1].temp = <<25, 1>>
    /\ Len(temp_over_time) = 2

====
